---- MODULE Spec2Model ----
(***************************************************************************)
(* lean-statemachine: the State / Transition descriptors, the one-time     *)
(* static build of a machine type (StateMachine.callbacks_init), the       *)
(* constructor (StateMachine.__init__) and the stepping algorithm          *)
(* (StateMachine.cycle) of src/lean.py.                                    *)
(*                                                                         *)
(* Python objects are named by an identity string (id); their attributes   *)
(* are looked up in the declaration tables below.  _states and             *)
(* _transitions are attributes of the base class StateMachine and are      *)
(* therefore ONE set and ONE dict shared by every machine type, while      *)
(* _initial_state is assigned on the subclass and is per type.             *)
(***************************************************************************)
EXTENDS Naturals, Sequences, FiniteSets, TLC

VARIABLES
    initial_state,  \* cls._initial_state, per machine type
    states,         \* StateMachine._states, shared by all types
    transitions,    \* StateMachine._transitions, shared by all types
    tname,          \* Transition._name of every Transition object
    callbacks,      \* the 'callbacks' attribute set on built Transitions
    instances,      \* the constructed instances: klass, _state, _first_run
    first_exc,      \* history: the outcome of each type's first construction
    constructs,     \* history: the number of constructor calls so far
    hardware,       \* the GumballMachineHardware passed as model
    calls,          \* history: the driven cycle() calls made on each instance
    mutex,          \* the module's Lock: 0 when free, else the holding thread
    threads,        \* the threads running a constructor, and their position
    last            \* history: the last call, its inputs and its outcome

vars == <<initial_state, states, transitions, tname, callbacks, instances,
          first_exc, constructs, hardware, calls, mutex, threads, last>>

None == "None"

\* The number of constructor calls of a behaviour.
MaxConstructs == 3

(***************************************************************************)
(* Descriptors                                                             *)
(***************************************************************************)

\* State.__init__: a named node, flagged initial and/or final.
State(id, name, initial, final) ==
    [kind |-> "State", id |-> id, name |-> name, initial |-> initial,
     final |-> final, state1 |-> None, state2 |-> None, cond |-> None]

\* Transition.__init__: a directed edge with a condition reference.
Transition(id, state1, state2, cond, name) ==
    [kind |-> "Transition", id |-> id, name |-> name, initial |-> FALSE,
     final |-> FALSE, state1 |-> state1.id, state2 |-> state2.id,
     cond |-> cond]

\* State.to: Transition(state1=self, state2=to_state, cond=cond, name=name).
to(id, self, to_state, name, cond) == Transition(id, self, to_state, cond, name)

\* One entry of a class body: the attribute name and the object bound to it.
Member(field, obj) == [field |-> field, obj |-> obj]

(***************************************************************************)
(* The machine types of the model.  A is well formed, declares two         *)
(* transitions from a1 and every hook of t1 and t2; B is a second well     *)
(* formed type.  The others are the malformed types of                     *)
(* tests/test_completeness.py, and NoFinalT a type without a final State   *)
(* that does declare a transition.                                         *)
(***************************************************************************)
A_a1 == State("A.a1", "a1", TRUE, FALSE)
A_a2 == State("A.a2", "a2", FALSE, FALSE)
A_a3 == State("A.a3", "a3", FALSE, TRUE)
A_t1 == to("A.t1", A_a1, A_a2, None, "c1")
A_t2 == to("A.t2", A_a1, A_a3, None, "c2")
A_t3 == to("A.t3", A_a2, A_a3, None, "c3")

B_b1 == State("B.b1", "b1", TRUE, FALSE)
B_b2 == State("B.b2", "b2", FALSE, TRUE)
B_u1 == to("B.u1", B_b1, B_b2, "go", "d1")

NoInit_s1 == State("NoInit.s1", "state_a1", FALSE, FALSE)
NoInit_s2 == State("NoInit.s2", "state_a2", FALSE, TRUE)

NoFinal_s1 == State("NoFinal.s1", "state_a1", TRUE, FALSE)
NoFinal_s2 == State("NoFinal.s2", "state_a2", FALSE, FALSE)

NoFinalT_s1 == State("NoFinalT.s1", "f1", TRUE, FALSE)
NoFinalT_s2 == State("NoFinalT.s2", "f2", FALSE, FALSE)
NoFinalT_t1 == to("NoFinalT.t1", NoFinalT_s1, NoFinalT_s2, None, "e1")

Plural_s1 == State("Plural.s1", "state_a", TRUE, FALSE)
Plural_s2 == State("Plural.s2", "state_a2", TRUE, FALSE)

NoTrans_s1 == State("NoTrans.s1", "state_a1", TRUE, FALSE)
NoTrans_s2 == State("NoTrans.s2", "state_a2", FALSE, TRUE)

NoCond_s1 == State("NoCond.s1", "state_a1", TRUE, FALSE)
NoCond_s2 == State("NoCond.s2", "state_a2", FALSE, TRUE)
NoCond_t1 == to("NoCond.t1", NoCond_s1, NoCond_s2, None, None)

NoCondImpl_s1 == State("NoCondImpl.s1", "state_a1", TRUE, FALSE)
NoCondImpl_s2 == State("NoCondImpl.s2", "state_a2", FALSE, TRUE)
NoCondImpl_t1 ==
    to("NoCondImpl.t1", NoCondImpl_s1, NoCondImpl_s2, None, "is_state_a1_to_a2")

\* Two separately created transitions with the same source, target and
\* name.
Dup_s1 == State("Dup.s1", "s1", TRUE, FALSE)
Dup_s2 == State("Dup.s2", "s2", FALSE, TRUE)
Dup_t1 == to("Dup.t1", Dup_s1, Dup_s2, "go", "c")
Dup_t2 == to("Dup.t2", Dup_s1, Dup_s2, "go", "c")

\* One transition object bound to two attributes of the class.
Alias_s1 == State("Alias.s1", "s1", TRUE, FALSE)
Alias_s2 == State("Alias.s2", "s2", FALSE, TRUE)
Alias_t1 == to("Alias.t1", Alias_s1, Alias_s2, None, "c")

\* A subclass whose __init__ does not call super().__init__.
NoSuper_s1 == State("NoSuper.s1", "state_a1", TRUE, FALSE)
NoSuper_s2 == State("NoSuper.s2", "state_a2", FALSE, TRUE)
NoSuper_t1 ==
    to("NoSuper.t1", NoSuper_s1, NoSuper_s2, None, "is_state_a1_to_a2")

\* The gumball machine of the examples.
ready             == State("Gumball.ready", "ready", TRUE, FALSE)
coin_dropped      == State("Gumball.coin_dropped", "coin_dropped", FALSE, FALSE)
coin_rejected     == State("Gumball.coin_rejected", "coin_rejected", FALSE, FALSE)
crank_turned      == State("Gumball.crank_turned", "crank_turned", FALSE, FALSE)
gumball_dispensed == State("Gumball.gumball_dispensed", "gumball_dispensed", FALSE, FALSE)
crank_returned    == State("Gumball.crank_returned", "crank_returned", FALSE, TRUE)
paying            == to("Gumball.paying", ready, coin_dropped, None, "is_coin_inserted")
rejecting_payment == to("Gumball.rejecting_payment", ready, coin_rejected, None, "is_coin_recognized")
reset_payment     == to("Gumball.reset_payment", coin_rejected, ready, None, "is_coin_returned")
cranking          == to("Gumball.cranking", coin_dropped, crank_turned, None, "is_crank_turning")
dispensing        == to("Gumball.dispensing", crank_turned, gumball_dispensed, None, "was_gumball_dispensed")
finishing         == to("Gumball.finishing", gumball_dispensed, crank_returned, None, "is_crank_returned")

\* A machine type declared as a subclass of A, with States and a
\* Transition of its own.
Sub_b1 == State("Sub.b1", "b1", TRUE, FALSE)
Sub_b2 == State("Sub.b2", "b2", FALSE, TRUE)
Sub_u  == to("Sub.u", Sub_b1, Sub_b2, None, "d")

\* The machine type a type is derived from, None for a direct subclass of
\* StateMachine.
base(cls) == IF cls = "Sub" THEN "A" ELSE None

Types == {"A", "B", "NoInit", "NoFinal", "NoFinalT", "Plural", "NoTrans",
          "NoCond", "NoCondImpl"}

\* The types of the specification of faults: raising callbacks, duplicate
\* transitions and an instance whose base constructor never ran.
FaultTypes == {"A", "Dup", "Alias", "NoSuper"}

\* Every machine type declared below.
AllTypes == Types \cup FaultTypes \cup {"Gumball", "Sub"}

\* The subclass's __init__ calls super().__init__(*args, **kwargs), or the
\* subclass defines no __init__ of its own.
calls_super(cls) == cls # "NoSuper"

\* cls.__dict__ restricted to the public State / Transition attributes, in
\* declaration order.
class_body(cls) ==
    CASE cls = "A" ->
           <<Member("a1", A_a1), Member("a2", A_a2), Member("a3", A_a3),
             Member("t1", A_t1), Member("t2", A_t2), Member("t3", A_t3)>>
      [] cls = "B" ->
           <<Member("b1", B_b1), Member("b2", B_b2), Member("u1", B_u1)>>
      [] cls = "NoInit" ->
           <<Member("state_a1", NoInit_s1), Member("state_a2", NoInit_s2)>>
      [] cls = "NoFinal" ->
           <<Member("state_a1", NoFinal_s1), Member("state_a2", NoFinal_s2)>>
      [] cls = "NoFinalT" ->
           <<Member("f1", NoFinalT_s1), Member("f2", NoFinalT_s2),
             Member("t1", NoFinalT_t1)>>
      [] cls = "Plural" ->
           <<Member("state_a1", Plural_s1), Member("state_a2", Plural_s2)>>
      [] cls = "NoTrans" ->
           <<Member("state_a1", NoTrans_s1), Member("state_a2", NoTrans_s2)>>
      [] cls = "NoCond" ->
           <<Member("state_a1", NoCond_s1), Member("state_a2", NoCond_s2),
             Member("trans1", NoCond_t1)>>
      [] cls = "NoCondImpl" ->
           <<Member("state_a1", NoCondImpl_s1),
             Member("state_a2", NoCondImpl_s2),
             Member("trans1", NoCondImpl_t1)>>
      [] cls = "Gumball" ->
           <<Member("ready", ready), Member("coin_dropped", coin_dropped),
             Member("coin_rejected", coin_rejected),
             Member("crank_turned", crank_turned),
             Member("gumball_dispensed", gumball_dispensed),
             Member("crank_returned", crank_returned),
             Member("paying", paying),
             Member("rejecting_payment", rejecting_payment),
             Member("reset_payment", reset_payment),
             Member("cranking", cranking),
             Member("dispensing", dispensing),
             Member("finishing", finishing)>>
      [] cls = "Sub" ->
           <<Member("b1", Sub_b1), Member("b2", Sub_b2), Member("u", Sub_u)>>
      [] cls = "Dup" ->
           <<Member("s1", Dup_s1), Member("s2", Dup_s2),
             Member("t1", Dup_t1), Member("t2", Dup_t2)>>
      [] cls = "Alias" ->
           <<Member("s1", Alias_s1), Member("s2", Alias_s2),
             Member("t1", Alias_t1), Member("t2", Alias_t1)>>
      [] cls = "NoSuper" ->
           <<Member("state_a1", NoSuper_s1), Member("state_a2", NoSuper_s2),
             Member("trans1", NoSuper_t1)>>

\* The methods a machine type defines: condition functions and hooks.
class_methods(cls) ==
    CASE cls = "A" ->
           {"c1", "c2", "c3",
            "before_t1", "on_exit_a1", "on_t1", "after_t1", "on_enter_a2",
            "before_t2", "on_t2", "after_t2", "on_enter_a3",
            "on_enter_a1", "on_t3"}
      [] cls = "B" -> {"d1", "on_go", "on_enter_b2"}
      [] cls = "NoFinalT" -> {"e1"}
      [] cls = "Gumball" ->
           {"is_coin_inserted", "is_coin_recognized", "is_coin_returned",
            "on_paying", "is_crank_turning", "on_dispensing",
            "was_gumball_dispensed", "is_crank_returned", "on_finishing"}
      [] cls = "Sub" -> {"d", "on_u"}
      [] cls = "Dup" -> {"c", "on_go"}
      [] cls = "Alias" -> {"c"}
      [] cls = "NoSuper" -> {"is_state_a1_to_a2"}
      [] OTHER -> {}

\* getattr on a class finds the methods of its base classes too.
MethodsTable ==
    [cls \in AllTypes |->
        class_methods(cls) \cup
            (IF base(cls) = None THEN {} ELSE class_methods(base(cls)))]
Methods(cls) == MethodsTable[cls]
MembersTable == [cls \in AllTypes |-> class_body(cls)]
Members(cls) == MembersTable[cls]

Objects ==
    UNION {{Members(cls)[k].obj : k \in 1..Len(Members(cls))} :
              cls \in AllTypes}
ObjTable == [id \in {o.id : o \in Objects} |-> CHOOSE o \in Objects : o.id = id]
\* The object with identity id.
Obj(id) == ObjTable[id]
StateIds == {o.id : o \in {x \in Objects : x.kind = "State"}}
TransIds == {o.id : o \in {x \in Objects : x.kind = "Transition"}}

\* The condition functions a type's instances may be asked to evaluate.
Conds(cls) ==
    {Members(cls)[k].obj.cond : k \in 1..Len(Members(cls))} \cap Methods(cls)

(***************************************************************************)
(* Exceptions                                                              *)
(***************************************************************************)
Exc(type, msg, arg) == [type |-> type, msg |-> msg, arg |-> arg]
NoExc == Exc(None, "", "")
StateException(msg, arg) == Exc("StateException", msg, arg)
TransitionException(msg, arg) == Exc("TransitionException", msg, arg)
StateMachineException(msg, arg) == Exc("StateMachineException", msg, arg)

Range(seq) == {seq[k] : k \in 1..Len(seq)}
EmptyDict == [x \in {} |-> <<>>]

(***************************************************************************)
(* StateMachine.callbacks_init: the static build of a machine type.        *)
(* The build works on a record cs of what it has assigned so far:          *)
(* initial_state (of cls), states and transitions (shared), tname and      *)
(* callbacks (attributes of the Transition objects), final_states (the     *)
(* local counter) and exc (the exception raised, if any).                  *)
(***************************************************************************)

\* getattr(cls, name, None) is not None, for a method name.
hasattr(cls, name) == name \in Methods(cls)

\* actor.name: State.name, or the (defaulted) Transition.name.
actor_name(actor, names) ==
    IF Obj(actor).kind = "State" THEN Obj(actor).name ELSE names[actor]

\* f"{event_type}_{actor.name}"
hook_name(event_type, actor, names) ==
    event_type \o "_" \o actor_name(actor, names)

\* Mutation of EventOrder: the exit hook of the source fires first.
EventOrder_exit_first(o) ==
    << <<"on_exit", o.state1>>, <<"before", o.id>>, <<"on", o.id>>,
       <<"after", o.id>>, <<"on_enter", o.state2>> >>

\* The (event_type, actor) pairs of a transition, in firing order.
EventOrder(o) ==
    << <<"before", o.id>>, <<"on_exit", o.state1>>, <<"on", o.id>>,
       <<"after", o.id>>, <<"on_enter", o.state2>> >>

\* The callbacks collected for transition o: one partial(event_callback,
\* event=actor) per hook the type defines.
collect_callbacks(cls, o, names) ==
    LET found == SelectSeq(EventOrder(o),
                     LAMBDA e : hasattr(cls, hook_name(e[1], e[2], names)))
    IN  [k \in 1..Len(found) |->
            [hook |-> hook_name(found[k][1], found[k][2], names),
             event |-> found[k][2]]]

\* Mutation of scan_state: every State is recorded as the initial one.
scan_state_any(o, cs) ==
    [cs EXCEPT !.initial_state = o.id, !.states = @ \cup {o.id}]

\* The isinstance(attrib, State) branch.
scan_state(o, cs) ==
    IF o.initial /\ cs.initial_state # None
    THEN [cs EXCEPT !.exc = StateException(
              "Only one initial state per machine is permitted", o.id)]
    ELSE LET c1 == IF o.initial THEN [cs EXCEPT !.initial_state = o.id] ELSE cs
             c2 == IF o.final THEN [c1 EXCEPT !.final_states = @ + 1] ELSE c1
         IN  IF o.name \in {None, ""}
             THEN [c2 EXCEPT !.exc =
                      StateException("State must have a name", o.id)]
             ELSE [c2 EXCEPT !.states = @ \cup {o.id}]

\* Mutation of cond_resolves: the condition is never looked up.
cond_unchecked(cls, o) == TRUE

\* The condition of transition o resolves to a member of cls.
cond_resolves(cls, o) == o.cond # None /\ hasattr(cls, o.cond)

\* Mutation of index_append: the transition is put in front.
index_prepend(list, id) == <<id>> \o list

\* cls._transitions[state1].append(attrib)
index_append(list, id) == Append(list, id)

\* Mutation of invoked_at_build: the hooks are called while collected.
invoked_at_build_all(pipeline) == pipeline

\* The functions the build calls while it collects a pipeline: getattr
\* looks the hooks up and partial binds them, none is called.
invoked_at_build(pipeline) == <<>>

\* The isinstance(attrib, Transition) branch.
scan_transition(cls, field, o, cs) ==
    LET nm  == IF cs.tname[o.id] \in {None, ""} THEN field ELSE cs.tname[o.id]
        c1  == [cs EXCEPT !.tname[o.id] = nm]
        \* cls._transitions[attrib.state1] creates the key (defaultdict)
        idx == IF o.state1 \in DOMAIN c1.transitions
               THEN c1.transitions
               ELSE (o.state1 :> <<>>) @@ c1.transitions
        c2  == [c1 EXCEPT !.transitions = idx]
    IN  IF ~cond_resolves(cls, o)
        THEN [c1 EXCEPT !.exc = TransitionException(
                 "has no 'cond' param, or condition method needs implementing",
                 nm)]
        ELSE IF o.id \in Range(idx[o.state1])
        THEN [c2 EXCEPT !.exc = TransitionException("Duplicate transition", nm)]
        ELSE [c2 EXCEPT
                 !.transitions[o.state1] = index_append(@, o.id),
                 !.callbacks = (o.id :> collect_callbacks(cls, o, c1.tname))
                                  @@ @,
                 !.invoked = @ \o invoked_at_build(
                                     collect_callbacks(cls, o, c1.tname))]

\* The loop over the members, from member k on; it stops at an exception.
RECURSIVE scan(_, _, _)
scan(cls, k, cs) ==
    IF k > Len(Members(cls)) \/ cs.exc.type # None THEN cs
    ELSE LET m == Members(cls)[k]
         IN  scan(cls, k + 1,
                  IF m.obj.kind = "State" THEN scan_state(m.obj, cs)
                  ELSE scan_transition(cls, m.field, m.obj, cs))

\* The validation after the loop.
post_scan(cs) ==
    IF cs.initial_state = None
    THEN [cs EXCEPT !.exc =
             StateException("One initial state must be defined", "")]
    ELSE IF DOMAIN cs.transitions = {}
    THEN [cs EXCEPT !.exc = TransitionException("No transitions defined", "")]
    ELSE cs

\* Mutation of cleared_index: the entries of an earlier build are kept.
cleared_index_kept(index) == index

\* cls._transitions.clear()
cleared_index(index) == EmptyDict

callbacks_init(cls) ==
    LET start == [initial_state |-> None, states |-> {},
                  transitions |-> cleared_index(transitions), tname |-> tname,
                  callbacks |-> callbacks, final_states |-> 0, exc |-> NoExc,
                  invoked |-> <<>>]
        scanned == scan(cls, 1, start)
    IN  IF scanned.exc.type # None THEN scanned ELSE post_scan(scanned)

\* Mutation of is_initialized: the type never counts as built.
is_initialized_never(cls) == FALSE

\* getattr(cls, "_initial_state", None): the class's own attribute once a
\* build of the class has assigned it, else the attribute of its base.
lookup_initial_state(cls) ==
    IF initial_state[cls] # None \/ base(cls) = None
    THEN initial_state[cls]
    ELSE initial_state[base(cls)]

\* StateMachine.is_initialized
is_initialized(cls) == lookup_initial_state(cls) # None

(***************************************************************************)
(* StateMachine.cycle, as a function of the instance and of env, the set   *)
(* of condition functions that return a truthy value in this call.         *)
(***************************************************************************)

\* Mutation of final: the final flag is not consulted.
final_ignored(state) == FALSE

\* self._state.final
final(state) == Obj(state).final

\* Mutation of candidates: the index is read without regard to the State.
candidates_of_any(state) ==
    IF DOMAIN transitions = {} THEN <<>>
    ELSE transitions[CHOOSE s \in DOMAIN transitions :
                         \A other \in DOMAIN transitions :
                             Len(transitions[other]) <= Len(transitions[s])]

\* klass.transitions.get(self._state, None), None read as the empty list.
candidates(state) ==
    IF state \in DOMAIN transitions THEN transitions[state] ELSE <<>>

\* The checks of the first cycle() of an instance.
first_run_check(self) ==
    IF ~self.first_run THEN NoExc
    ELSE IF self.state = None
    THEN StateMachineException("State machine has no current state", "")
    ELSE IF DOMAIN transitions = {}
    THEN TransitionException("No transitions were found", "")
    ELSE NoExc

\* Mutation of select: every candidate's condition is called, and the
\* first truthy one is selected afterwards.
RECURSIVE select_after_all(_, _, _, _)
select_after_all(klass, cands, k, env) ==
    IF k > Len(cands)
    THEN [evaluated |-> <<>>, trans |-> None, exc |-> NoExc]
    ELSE LET t    == Obj(cands[k])
             rest == select_after_all(klass, cands, k + 1, env)
         IN  IF ~hasattr(klass, t.cond)
             THEN [evaluated |-> <<>>, trans |-> None,
                   exc |-> TransitionException(
                       "Condition function is not yet implemented", t.cond)]
             ELSE [rest EXCEPT !.evaluated = <<t.id>> \o @,
                               !.trans = IF t.cond \in env THEN t.id ELSE @]

\* The loop over the candidates from candidate k on: the transitions whose
\* condition function was called, the transition selected (or None) and the
\* exception raised for a condition that is not implemented.
RECURSIVE select(_, _, _, _)
select(klass, cands, k, env) ==
    IF k > Len(cands)
    THEN [evaluated |-> <<>>, trans |-> None, exc |-> NoExc]
    ELSE LET t == Obj(cands[k])
         IN  IF ~hasattr(klass, t.cond)
             THEN [evaluated |-> <<>>, trans |-> None,
                   exc |-> TransitionException(
                       "Condition function is not yet implemented", t.cond)]
             ELSE IF t.cond \in env
             THEN [evaluated |-> <<t.id>>, trans |-> t.id, exc |-> NoExc]
             ELSE LET rest == select(klass, cands, k + 1, env)
                  IN  [rest EXCEPT !.evaluated = <<t.id>> \o @]

\* What cycle() returns after the loop, whether or not a transition fired.
return_after_loop(did_transition) == "None"

\* Mutation of move_to: the conditions of the State entered are tried at
\* once, and a truthy one is followed in the same call.
move_chained(trans, env) ==
    LET mid  == Obj(trans).state2
        more == SelectSeq(candidates(mid), LAMBDA t : Obj(t).cond \in env)
    IN  IF more = <<>> THEN mid ELSE Obj(more[1]).state2

\* self._state = trans.state2; env is not consulted again.
move_to(trans, env) == Obj(trans).state2

\* Mutation of state_on_raise: the state is committed before the pipeline.
state_committed_first(self, trans) == Obj(trans).state2

\* self._state when a callback of trans raised: the assignment of
\* trans.state2 comes after the loop over trans.callbacks.
state_on_raise(self, trans) == self.state

\* The callbacks of a pipeline that get called when hook bad raises: the
\* pipeline up to and including the first call of bad.
RECURSIVE called(_, _, _)
called(pipeline, k, bad) ==
    IF k > Len(pipeline) THEN <<>>
    ELSE IF pipeline[k].hook = bad THEN <<pipeline[k]>>
    ELSE <<pipeline[k]>> \o called(pipeline, k + 1, bad)

\* Mutation of attribute_error: a missing attribute reads as a default and
\* the call returns False.
attribute_defaulted(out) == [out EXCEPT !.result = "False"]

\* 'if self._first_run' on an object whose base __init__ never ran.
attribute_error(out) ==
    [out EXCEPT !.exc = Exc("AttributeError",
                            "object has no attribute '_first_run'", "")]

\* Mutation of no_transitions_found: the call returns False silently.
no_transitions_silent(out, state) == [out EXCEPT !.result = "False"]

\* 'if not (candidates := ...)': raise TransitionException.
no_transitions_found(out, state) ==
    [out EXCEPT !.exc =
        TransitionException("No transitions found from state", state)]

\* The outcome of self.cycle() when the conditions in env are truthy and
\* the hook bad (if any) raises: the new _state, the value returned (or
\* "raise"), the exception, the conditions evaluated, the callbacks
\* invoked, the transition selected and the transition completed.
cycle(self, env, bad) ==
    LET fr == first_run_check(self)
        stay == [state |-> self.state, result |-> "raise", exc |-> NoExc,
                 evaluated |-> <<>>, fired |-> <<>>, trans |-> None,
                 selected |-> None]
    IN  IF ~self.constructed THEN attribute_error(stay)
        ELSE IF fr.type # None THEN [stay EXCEPT !.exc = fr]
        ELSE IF final(self.state) THEN [stay EXCEPT !.result = "False"]
        ELSE IF candidates(self.state) = <<>>
        THEN no_transitions_found(stay, self.state)
        ELSE LET sel == select(self.klass, candidates(self.state), 1, env)
             IN  IF sel.exc.type # None
                 THEN [stay EXCEPT !.exc = sel.exc,
                                   !.evaluated = sel.evaluated]
                 ELSE IF sel.trans = None
                 THEN [stay EXCEPT !.result = return_after_loop(FALSE),
                                   !.evaluated = sel.evaluated]
                 ELSE IF \E k \in 1..Len(callbacks[sel.trans]) :
                             callbacks[sel.trans][k].hook = bad
                 THEN [state |-> state_on_raise(self, sel.trans),
                       result |-> "raise",
                       exc |-> Exc("Exception", "raised by a callback", bad),
                       evaluated |-> sel.evaluated,
                       fired |-> called(callbacks[sel.trans], 1, bad),
                       trans |-> None,
                       selected |-> sel.trans]
                 ELSE [state |-> move_to(sel.trans, env),
                       result |-> return_after_loop(TRUE),
                       exc |-> NoExc,
                       evaluated |-> sel.evaluated,
                       fired |-> callbacks[sel.trans],
                       trans |-> sel.trans,
                       selected |-> sel.trans]

(***************************************************************************)
(* The state machine of the model                                          *)
(***************************************************************************)

\* GumballMachineHardware.__init__.
GumballMachineHardware == [coin_slot |-> "False", crank_position |-> 0]

COIN_SLOT_OCCUPIED == "coin_inserted"
COIN_SLOT_BAD == "coin_bad"
COIN_SLOT_EMPTY == "empty"

\* GumballMachineHardware.turn_crank.
turn_crank(hw, degrees) == [hw EXCEPT !.crank_position = degrees]

\* Mutation of hw_gumball_dispensed: the gumball drops at the rest position.
hw_gumball_dispensed_at_rest(hw) == hw.crank_position = 0

\* GumballMachineHardware.gumball_dispensed.
hw_gumball_dispensed(hw) == hw.crank_position = 360

\* The side effect of one hook on the model object: on_dispensing resets
\* the crank, the other hooks of the model's types change nothing.
hook_effect(hook, hw) ==
    IF hook = "on_dispensing" THEN turn_crank(hw, 0) ELSE hw

\* The model object after the hooks of fired that returned normally.
RECURSIVE run_hooks(_, _, _)
run_hooks(fired, bad, hw) ==
    IF fired = <<>> THEN hw
    ELSE IF fired[1].hook = bad THEN hw
    ELSE run_hooks(Tail(fired), bad, hook_effect(fired[1].hook, hw))

\* No constructor call of the type has been made yet.
Unattempted == Exc("unattempted", "", "")

NoCall ==
    [op |-> "none", klass |-> None, inst |-> 0, pre |-> None, env |-> {},
     evaluated |-> <<>>, fired |-> <<>>, trans |-> None, result |-> None,
     exc |-> NoExc, built |-> FALSE, first |-> FALSE, selected |-> None,
     bad |-> None, model |-> GumballMachineHardware]

Init ==
    /\ initial_state = [cls \in AllTypes |-> None]
    /\ states = {}
    /\ transitions = EmptyDict
    /\ tname = [id \in TransIds |-> Obj(id).name]
    /\ callbacks = EmptyDict
    /\ instances = <<>>
    /\ first_exc = [cls \in AllTypes |-> Unattempted]
    /\ constructs = 0
    /\ hardware = GumballMachineHardware
    /\ calls = <<>>
    /\ mutex = 0
    /\ threads = <<>>
    /\ last = NoCall

\* StateMachine.__init__ of a subclass cls: the build when the type is not
\* initialized, then self._state = self._initial_state.  A subclass whose
\* __init__ does not call it gets an object without _state and _first_run.
Construct(cls) ==
    \E b \in {callbacks_init(cls)} :
    LET build == calls_super(cls) /\ ~is_initialized(cls)
        exc   == IF build THEN b.exc ELSE NoExc
        init  == IF ~calls_super(cls) THEN None
                 ELSE IF build THEN b.initial_state
                 ELSE lookup_initial_state(cls)
    IN  /\ constructs < MaxConstructs
        /\ constructs' = constructs + 1
        /\ IF build
           THEN /\ initial_state' = [initial_state EXCEPT ![cls] = b.initial_state]
                /\ states' = b.states
                /\ transitions' = b.transitions
                /\ tname' = b.tname
                /\ callbacks' = b.callbacks
           ELSE UNCHANGED <<initial_state, states, transitions, tname,
                            callbacks>>
        /\ instances' =
               IF exc.type = None
               THEN Append(instances,
                        [klass |-> cls, state |-> init,
                         first_run |-> calls_super(cls),
                         constructed |-> calls_super(cls)])
               ELSE instances
        /\ first_exc' = IF first_exc[cls] = Unattempted
                        THEN [first_exc EXCEPT ![cls] = exc]
                        ELSE first_exc
        /\ last' = [NoCall EXCEPT
               !.op = "construct", !.klass = cls,
               !.inst = IF exc.type = None THEN Len(instances) + 1 ELSE 0,
               !.result = IF exc.type = None THEN "instance" ELSE "raise",
               !.exc = exc, !.built = build,
               !.fired = IF build THEN b.invoked ELSE <<>>,
               !.first = (first_exc[cls] = Unattempted), !.model = hardware]
        /\ calls' = IF exc.type = None THEN Append(calls, 0) ELSE calls
        /\ UNCHANGED <<hardware, mutex, threads>>

\* Mutation of assign_state: the current State is kept on the class, as
\* the index is, and so is shared by the instances of the type.
assign_state_on_class(insts, i, state) ==
    [j \in DOMAIN insts |->
        IF insts[j].klass = insts[i].klass
        THEN [insts[j] EXCEPT !.state = state]
        ELSE insts[j]]

\* self._state = ...: an attribute of the instance.
assign_state(insts, i, state) == [insts EXCEPT ![i].state = state]

\* instances[i].cycle(), with env the conditions that hold in this call
\* and bad the hook that raises in it (None: no callback raises).
CycleWith(i, env, bad) ==
    \E r \in {cycle(instances[i], env, bad)} :
    LET self == instances[i]
    IN  /\ instances' = [assign_state(instances, i, r.state) EXCEPT
               ![i].first_run = FALSE]
        /\ last' = [NoCall EXCEPT
               !.op = "cycle", !.klass = self.klass, !.inst = i,
               !.pre = self.state, !.env = env, !.evaluated = r.evaluated,
               !.fired = r.fired, !.trans = r.trans, !.result = r.result,
               !.exc = r.exc, !.selected = r.selected, !.bad = bad,
               !.model = hardware]
        /\ hardware' = run_hooks(r.fired, bad, hardware)
        /\ UNCHANGED <<initial_state, states, transitions, tname, callbacks,
                       first_exc, constructs, mutex, threads>>

\* instances[i].cycle() with callbacks that return normally.
Cycle(i, env) == CycleWith(i, env, None) /\ UNCHANGED calls

Next ==
    \/ \E cls \in Types : Construct(cls)
    \/ \E i \in 1..Len(instances) :
          \E env \in SUBSET Conds(instances[i].klass) : Cycle(i, env)

Spec == Init /\ [][Next]_vars

(***************************************************************************)
(* The specification of faults: the types of FaultTypes, and cycle() calls *)
(* in which one hook of the current State's pipelines may raise.           *)
(***************************************************************************)

\* The hooks that a cycle() of the instance can call.
Raisers(self) ==
    IF self.state = None THEN {}
    ELSE UNION {{callbacks[t][k].hook : k \in 1..Len(callbacks[t])} :
                   t \in Range(candidates(self.state))}

\* The constructor calls of one behaviour of the specification of faults.
MaxFaultConstructs == 2

NextFaults ==
    \/ \E cls \in FaultTypes :
          constructs < MaxFaultConstructs /\ Construct(cls)
    \/ \E i \in 1..Len(instances) :
          \E env \in SUBSET Conds(instances[i].klass) :
              \E bad \in Raisers(instances[i]) \cup {None} :
                  CycleWith(i, env, bad) /\ UNCHANGED calls

SpecFaults == Init /\ [][NextFaults]_vars

(***************************************************************************)
(* What a machine type declares, read off its class body.                  *)
(***************************************************************************)
DeclaredStates(cls) ==
    {m.obj : m \in {x \in Range(Members(cls)) : x.obj.kind = "State"}}
DeclaredTransitions(cls) ==
    {m.obj : m \in {x \in Range(Members(cls)) : x.obj.kind = "Transition"}}
NumInitial(cls) == Cardinality({o \in DeclaredStates(cls) : o.initial})
HasFinal(cls) == \E o \in DeclaredStates(cls) : o.final
Unresolved(cls, o) == o.cond = None \/ o.cond \notin Methods(cls)
WellFormed(cls) ==
    /\ NumInitial(cls) = 1
    /\ HasFinal(cls)
    /\ DeclaredTransitions(cls) # {}
    /\ \A o \in DeclaredTransitions(cls) : ~Unresolved(cls, o)
\* The name a transition has once built: its own, or its field's.
BuiltName(cls, o) ==
    IF o.name # None THEN o.name
    ELSE (CHOOSE m \in Range(Members(cls)) : m.obj.id = o.id).field
\* The transitions declared from state s, in declaration order.
Outgoing(cls, s) ==
    LET ms == SelectSeq(Members(cls),
                  LAMBDA m : m.obj.kind = "Transition" /\ m.obj.state1 = s)
    IN  [k \in 1..Len(ms) |-> ms[k].obj.id]
\* Python truthiness of a value cycle() returns.
Truthy(result) == result = "True"

(***************************************************************************)
(* C1. cycle() returns a true value exactly when the call fired a          *)
(* transition, and a false value when no condition held or the current     *)
(* State was final.                                                        *)
(***************************************************************************)
C1_ReturnsTrueIffFired ==
    (last.op = "cycle" /\ last.exc.type = None) =>
        (Truthy(last.result) <=> last.trans # None)

(***************************************************************************)
(* C2. A cycle() on an instance whose current State is final returns       *)
(* False, raises nothing, leaves current unchanged, evaluates no           *)
(* condition and fires no callback, however often it is called.            *)
(***************************************************************************)
C2_TerminalAbsorbing ==
    (last.op = "cycle" /\ Obj(last.pre).final) =>
        /\ last.result = "False"
        /\ last.exc.type = None
        /\ instances[last.inst].state = last.pre
        /\ last.evaluated = <<>>
        /\ last.fired = <<>>

C2_Witness ==
    /\ last.op = "cycle"
    /\ Obj(last.pre).final
    /\ ~instances[last.inst].first_run
    /\ last.env # {}

C4_CallbackOrder ==
    (last.op = "cycle" /\ last.trans # None) =>
        LET t    == Obj(last.trans)
            nm   == BuiltName(last.klass, t)
            five == << [hook |-> "before_" \o nm, event |-> t.id],
                       [hook |-> "on_exit_" \o Obj(t.state1).name,
                        event |-> t.state1],
                       [hook |-> "on_" \o nm, event |-> t.id],
                       [hook |-> "after_" \o nm, event |-> t.id],
                       [hook |-> "on_enter_" \o Obj(t.state2).name,
                        event |-> t.state2] >>
        IN  (\A k \in 1..5 : five[k].hook \in Methods(last.klass))
                => last.fired = five

C4_Witness ==
    /\ last.op = "cycle"
    /\ last.trans = "A.t1"
    /\ Len(last.fired) = 5
    /\ last.fired[1].hook = "before_t1"
    /\ last.fired[5].hook = "on_enter_a2"

(***************************************************************************)
(* C5. Constructing an instance of a type that declares an initial State   *)
(* but no final State fails with a StateException and yields no instance.  *)
(***************************************************************************)
C5_NoFinalRejected ==
    (/\ last.op = "construct"
     /\ NumInitial(last.klass) = 1
     /\ ~HasFinal(last.klass))
    => (last.result = "raise" /\ last.exc.type = "StateException")

(***************************************************************************)
(* C6. Constructing an instance of a type that declares zero initial       *)
(* States, or two or more, fails with a StateException and yields no       *)
(* instance.                                                               *)
(***************************************************************************)
C6_InitialCountRejected ==
    (last.op = "construct" /\ NumInitial(last.klass) # 1)
    => (last.result = "raise" /\ last.exc.type = "StateException")

(***************************************************************************)
(* C7. Constructing an instance of a type that declares one initial and    *)
(* one final State but no Transition fails with the TransitionException    *)
(* 'No transitions defined' and yields no instance, whatever was built     *)
(* before.                                                                 *)
(***************************************************************************)
C7_NoTransitionsRejected ==
    (/\ last.op = "construct"
     /\ NumInitial(last.klass) = 1
     /\ HasFinal(last.klass)
     /\ DeclaredTransitions(last.klass) = {})
    => /\ last.result = "raise"
       /\ last.exc = TransitionException("No transitions defined", "")

(***************************************************************************)
(* C8. The first construction of a type that declares a Transition whose   *)
(* condition is None or names no member of the type raises a               *)
(* TransitionException naming that transition, and leaves no instance of   *)
(* the type on which cycle() could be called.                              *)
(***************************************************************************)
C8_UnresolvedCondRejected ==
    (last.op = "construct" /\ last.first) =>
        \A o \in DeclaredTransitions(last.klass) :
            Unresolved(last.klass, o) =>
                /\ last.result = "raise"
                /\ last.exc.type = "TransitionException"
                /\ last.exc.arg = BuiltName(last.klass, o)
                /\ \A i \in 1..Len(instances) :
                       instances[i].klass # last.klass

C8_Witness ==
    /\ last.op = "construct"
    /\ last.first
    /\ last.klass = "NoCondImpl"
    /\ last.exc.type = "TransitionException"
    /\ last.exc.arg = "trans1"
    /\ first_exc["NoCond"].type = "TransitionException"
    /\ first_exc["A"].type = None

(***************************************************************************)
(* C9. Every construction attempt on a type whose first construction       *)
(* failed with a definition error fails again with the same error; none    *)
(* returns an instance.                                                    *)
(***************************************************************************)
C9_MalformedFailsIdentically ==
    (/\ last.op = "construct"
     /\ first_exc[last.klass].type \in {"StateException",
                                         "TransitionException"})
    => (last.result = "raise" /\ last.exc = first_exc[last.klass])

(***************************************************************************)
(* C10. Once a type is built, its States stay registered, each of its      *)
(* States keeps its outgoing transitions in declaration order and each of  *)
(* its transitions keeps its callback pipeline, whatever other types are   *)
(* constructed afterwards.                                                 *)
(***************************************************************************)
C10_OtherBuildsLeaveModelIntact ==
    \A cls \in Types :
        first_exc[cls].type = None =>
            \A o \in DeclaredStates(cls) :
                /\ o.id \in states
                /\ candidates(o.id) = Outgoing(cls, o.id)

(***************************************************************************)
(* C13. An instance of a well-formed type on which cycle() has not been    *)
(* called yet is at the one State its type declares with initial = True.   *)
(***************************************************************************)
DeclaredInitial(cls) == (CHOOSE o \in DeclaredStates(cls) : o.initial).id

C16_NoMatchIsNoOp ==
    (/\ last.op = "cycle"
     /\ ~Obj(last.pre).final
     /\ candidates(last.pre) # <<>>
     /\ \A k \in 1..Len(candidates(last.pre)) :
            Obj(candidates(last.pre)[k]).cond \notin last.env)
    => /\ last.exc.type = None
       /\ last.result = "False"
       /\ last.fired = <<>>
       /\ instances[last.inst].state = last.pre

(***************************************************************************)
(* C17. One cycle() follows at most one edge: current either stays, with   *)
(* no callback fired, or becomes the target of one transition declared     *)
(* from the previous State, with only that transition's callbacks fired,   *)
(* whatever conditions of the State entered are truthy.                    *)
(***************************************************************************)
C17_OneEdgePerCall ==
    last.op = "cycle" =>
        \/ /\ last.trans = None
           /\ instances[last.inst].state = last.pre
           /\ last.fired = <<>>
        \/ /\ last.trans \in Range(Outgoing(last.klass, last.pre))
           /\ instances[last.inst].state = Obj(last.trans).state2
           /\ \A n \in 1..Len(last.fired) :
                  last.fired[n].event \in
                      {last.trans, last.pre, Obj(last.trans).state2}
           /\ Len(last.fired) <= 5

C17_Witness ==
    /\ last.op = "cycle"
    /\ last.pre = "A.a1"
    /\ last.env = {"c1", "c3"}
    /\ last.trans = "A.t1"
    /\ instances[last.inst].state = "A.a2"

CrankPositions == {0, 90, 180, 270, 360}

\* The conditions of GumballStateMachine that hold for the hardware hw.
GumballEnv(hw) ==
    {c \in Conds("Gumball") :
        \/ c = "is_coin_inserted" /\ hw.coin_slot = COIN_SLOT_OCCUPIED
        \/ c = "is_coin_recognized" /\ hw.coin_slot = COIN_SLOT_BAD
        \/ c = "is_coin_returned" /\ hw.coin_slot = COIN_SLOT_EMPTY
        \/ c = "is_crank_turning" /\ hw.crank_position # 0
        \/ c = "was_gumball_dispensed" /\ hw_gumball_dispensed(hw)
        \/ c = "is_crank_returned" /\ hw.crank_position = 0}

\* The machines constructed on one hardware object.
MaxGumballs == 1

\* GumballStateMachine(name=..., model=hardware).
ConstructGumball == constructs < MaxGumballs /\ Construct("Gumball")

\* hardware.coin_slot(action) with an action other than "read".
CoinSlot(action) ==
    /\ hardware' = [hardware EXCEPT !.coin_slot = action]
    /\ UNCHANGED <<initial_state, states, transitions, tname, callbacks,
                   instances, first_exc, constructs, calls, mutex, threads,
                   last>>

\* hardware.turn_crank(degrees).
TurnCrank(degrees) ==
    /\ hardware' = turn_crank(hardware, degrees)
    /\ UNCHANGED <<initial_state, states, transitions, tname, callbacks,
                   instances, first_exc, constructs, calls, mutex, threads,
                   last>>

\* instances[i].cycle(), its conditions reading the hardware.
GumballCycle(i) == Cycle(i, GumballEnv(hardware))

NextGumball ==
    \/ ConstructGumball
    \/ \E action \in {COIN_SLOT_OCCUPIED, COIN_SLOT_BAD, COIN_SLOT_EMPTY} :
          CoinSlot(action)
    \/ \E degrees \in CrankPositions : TurnCrank(degrees)
    \/ \E i \in 1..Len(instances) : GumballCycle(i)

SpecGumball == Init /\ [][NextGumball]_vars

(***************************************************************************)
(* The specification of driven machines: well-formed types whose           *)
(* environment makes, at every call, the condition of one outgoing         *)
(* transition of the current State hold.                                   *)
(***************************************************************************)
DrivenTypes == {"A", "B"}

\* The cycle() calls made on one instance.
MaxCalls == 4

\* The environments that drive an instance: the condition of one declared
\* outgoing transition of its State holds; at a State that declares none,
\* no condition holds.
DrivingEnvs(self) ==
    LET out == Outgoing(self.klass, self.state)
    IN  IF out = <<>> THEN {{}}
        ELSE {{Obj(out[k]).cond} : k \in 1..Len(out)}

DrivenCycle(i) ==
    /\ calls[i] < MaxCalls
    /\ \E env \in DrivingEnvs(instances[i]) : CycleWith(i, env, None)
    /\ calls' = [calls EXCEPT ![i] = calls[i] + 1]

NextDriven ==
    \/ \E cls \in DrivenTypes : Construct(cls)
    \/ \E i \in 1..Len(instances) : DrivenCycle(i)

SpecDriven == Init /\ [][NextDriven]_vars

(***************************************************************************)
(* The specification of threads: each thread runs one constructor call,    *)
(* statement by statement; the build proceeds one class member per step.   *)
(***************************************************************************)
ThreadTypes == {"A", "B", "NoTrans"}

\* The threads of one behaviour.
MaxThreads == 2

\* Mutation of can_acquire: the lock excludes nobody.
can_acquire_always(m) == TRUE

\* mutex.acquire(blocking=True) returns once the lock is free.
can_acquire(m) == m = 0

\* Mutation of released: the release follows the guarded statements
\* instead of standing in a finally clause.
released_unless_raised(m, exc) == IF exc.type # None THEN m ELSE 0

\* finally: mutex.release(), whether or not the guarded statements raised.
released(m, exc) == 0

\* A thread is started to run cls(name=...) and then cycle() on the
\* instance it got.
Spawn(cls) ==
    /\ Len(threads) < MaxThreads
    /\ threads' = Append(threads,
           [klass |-> cls, pc |-> "acquire", k |-> 1, final_states |-> 0,
            exc |-> NoExc, built |-> FALSE, inst |-> 0, cpc |-> "idle",
            cexc |-> NoExc])
    /\ UNCHANGED <<initial_state, states, transitions, tname, callbacks,
                   instances, first_exc, constructs, hardware, calls, mutex,
                   last>>

\* if mutex.acquire(blocking=True):
Acquire(t) ==
    /\ threads[t].pc = "acquire"
    /\ can_acquire(mutex)
    /\ mutex' = t
    /\ threads' = [threads EXCEPT ![t].pc = "check"]
    /\ UNCHANGED <<initial_state, states, transitions, tname, callbacks,
                   instances, first_exc, constructs, hardware, calls, last>>

\* if not klass.is_initialized: klass.callbacks_init() is entered and
\* clears the shared index.
Check(t) ==
    /\ threads[t].pc = "check"
    /\ IF is_initialized(threads[t].klass)
       THEN /\ threads' = [threads EXCEPT ![t].pc = "release"]
            /\ UNCHANGED <<initial_state, states, transitions>>
       ELSE /\ threads' = [threads EXCEPT ![t].pc = "scan", ![t].built = TRUE]
            /\ initial_state' =
                   [initial_state EXCEPT ![threads[t].klass] = None]
            /\ states' = {}
            /\ transitions' = cleared_index(transitions)
    /\ UNCHANGED <<tname, callbacks, instances, first_exc,
                   constructs, hardware, calls, mutex, last>>

\* One iteration of the loop over the class members, or the validation
\* after its last iteration.
ScanMember(t) ==
    LET th  == threads[t]
        cls == th.klass
        cs  == [initial_state |-> initial_state[cls], states |-> states,
                transitions |-> transitions, tname |-> tname,
                callbacks |-> callbacks, final_states |-> th.final_states,
                exc |-> NoExc, invoked |-> <<>>]
    IN  /\ th.pc = "scan"
        /\ \E r \in {IF th.k > Len(Members(cls)) THEN post_scan(cs)
                      ELSE IF Members(cls)[th.k].obj.kind = "State"
                      THEN scan_state(Members(cls)[th.k].obj, cs)
                      ELSE scan_transition(cls, Members(cls)[th.k].field,
                                           Members(cls)[th.k].obj, cs)} :
              /\ initial_state' =
                     [initial_state EXCEPT ![cls] = r.initial_state]
              /\ states' = r.states
              /\ transitions' = r.transitions
              /\ tname' = r.tname
              /\ callbacks' = r.callbacks
              /\ threads' = [threads EXCEPT ![t] =
                     [th EXCEPT
                        !.k = @ + 1, !.final_states = r.final_states,
                        !.exc = r.exc,
                        !.pc = IF r.exc.type # None
                                  \/ th.k > Len(Members(cls))
                               THEN "release" ELSE "scan"]]
        /\ UNCHANGED <<instances, first_exc, constructs, hardware, calls,
                       mutex, last>>

\* finally: mutex.release(); an exception of the build then leaves the
\* constructor.
Release(t) ==
    /\ threads[t].pc = "release"
    /\ mutex' = released(mutex, threads[t].exc)
    /\ threads' = [threads EXCEPT ![t].pc =
           IF threads[t].exc.type # None THEN "raised" ELSE "assign"]
    /\ UNCHANGED <<initial_state, states, transitions, tname, callbacks,
                   instances, first_exc, constructs, hardware, calls, last>>

\* self._state = self._initial_state, and the constructor returns.
Assign(t) ==
    /\ threads[t].pc = "assign"
    /\ instances' = Append(instances,
           [klass |-> threads[t].klass,
            state |-> lookup_initial_state(threads[t].klass),
            first_run |-> TRUE, constructed |-> TRUE])
    /\ calls' = Append(calls, 0)
    /\ threads' = [threads EXCEPT ![t].pc = "done",
                                  ![t].inst = Len(instances) + 1]
    /\ UNCHANGED <<initial_state, states, transitions, tname, callbacks,
                   first_exc, constructs, hardware, mutex, last>>

\* cycle() on the thread's instance: if self._first_run, then
\* mutex.acquire(blocking=True).
CycleAcquire(t) ==
    /\ threads[t].pc = "done"
    /\ threads[t].cpc = "idle"
    /\ instances[threads[t].inst].first_run
    /\ can_acquire(mutex)
    /\ mutex' = t
    /\ threads' = [threads EXCEPT ![t].cpc = "check"]
    /\ UNCHANGED <<initial_state, states, transitions, tname, callbacks,
                   instances, first_exc, constructs, hardware, calls, last>>

\* self._first_run = False and the first-run checks, under the lock.
FirstRunCheck(t) ==
    /\ threads[t].cpc = "check"
    /\ threads' = [threads EXCEPT
           ![t].cpc = "release",
           ![t].cexc = first_run_check(instances[threads[t].inst])]
    /\ instances' = [instances EXCEPT ![threads[t].inst].first_run = FALSE]
    /\ UNCHANGED <<initial_state, states, transitions, tname, callbacks,
                   first_exc, constructs, hardware, calls, mutex, last>>

\* finally: mutex.release(); an exception of the checks then leaves
\* cycle().
CycleRelease(t) ==
    /\ threads[t].cpc = "release"
    /\ mutex' = released(mutex, threads[t].cexc)
    /\ threads' = [threads EXCEPT ![t].cpc =
           IF threads[t].cexc.type # None THEN "raised" ELSE "body"]
    /\ UNCHANGED <<initial_state, states, transitions, tname, callbacks,
                   instances, first_exc, constructs, hardware, calls, last>>

\* The rest of cycle(), from the final test on, outside the lock.
CycleBody(t, env) ==
    /\ threads[t].cpc = "body"
    /\ \E r \in {cycle(instances[threads[t].inst], env, None)} :
          /\ instances' = [instances EXCEPT
                 ![threads[t].inst].state = r.state]
          /\ threads' = [threads EXCEPT
                 ![t].cpc = IF r.exc.type # None THEN "raised"
                            ELSE "returned",
                 ![t].cexc = r.exc]
    /\ UNCHANGED <<initial_state, states, transitions, tname, callbacks,
                   first_exc, constructs, hardware, calls, mutex, last>>

\* One step of thread t.
ThreadStep(t) ==
    \/ Acquire(t)
    \/ Check(t)
    \/ ScanMember(t)
    \/ Release(t)
    \/ Assign(t)
    \/ CycleAcquire(t)
    \/ FirstRunCheck(t)
    \/ CycleRelease(t)
    \/ \E env \in SUBSET Conds(threads[t].klass) : CycleBody(t, env)

NextThreads ==
    \/ \E cls \in ThreadTypes : Spawn(cls)
    \/ \E t \in 1..Len(threads) : ThreadStep(t)

SpecThreads == Init /\ [][NextThreads]_vars

\* The scheduler lets every thread that can take a step take one, and a
\* blocking acquire returns once the lock stays free.
SpecThreadsFair ==
    /\ SpecThreads
    /\ \A t \in 1..MaxThreads :
           WF_vars(t \in 1..Len(threads) /\ ThreadStep(t))

(***************************************************************************)
(* The specification of rebuilds: besides constructor and cycle() calls,   *)
(* callbacks_init is called on a type directly, as the diagram tool does.  *)
(***************************************************************************)
RebuildTypes == {"A", "B"}

\* machine.callbacks_init(), whether or not the type was built before.
Rebuild(cls) ==
    \E b \in {callbacks_init(cls)} :
        /\ initial_state' = [initial_state EXCEPT ![cls] = b.initial_state]
        /\ states' = b.states
        /\ transitions' = b.transitions
        /\ tname' = b.tname
        /\ callbacks' = b.callbacks
        /\ last' = [NoCall EXCEPT
               !.op = "rebuild", !.klass = cls,
               !.result = IF b.exc.type = None THEN "None" ELSE "raise",
               !.exc = b.exc, !.built = TRUE, !.fired = b.invoked,
               !.model = hardware]
        /\ UNCHANGED <<instances, first_exc, constructs, hardware, calls,
                       mutex, threads>>

NextRebuild ==
    \/ \E cls \in RebuildTypes : Construct(cls)
    \/ \E cls \in RebuildTypes : Rebuild(cls)
    \/ \E i \in 1..Len(instances) :
          \E env \in SUBSET Conds(instances[i].klass) : Cycle(i, env)

SpecRebuild == Init /\ [][NextRebuild]_vars

(***************************************************************************)
(* The specification of inheritance: A and a subclass of A are constructed *)
(* in either order and their instances cycled.                             *)
(***************************************************************************)
InheritTypes == {"A", "Sub"}

\* The condition functions an instance can be asked to evaluate: those of
\* its type and of the type's base.
InheritedConds(cls) ==
    Conds(cls) \cup (IF base(cls) = None THEN {} ELSE Conds(base(cls)))

NextInherit ==
    \/ \E cls \in InheritTypes : Construct(cls)
    \/ \E i \in 1..Len(instances) :
          \E env \in SUBSET InheritedConds(instances[i].klass) : Cycle(i, env)

SpecInherit == Init /\ [][NextInherit]_vars

(***************************************************************************)
(* C12. When a callback in the pipeline of the selected transition raises, *)
(* cycle() raises that exception to the caller, the callbacks after it are *)
(* not called and current is still the source of the transition.           *)
(***************************************************************************)
C12_RaisingCallbackKeepsSource ==
    (/\ last.op = "cycle"
     /\ last.selected # None
     /\ \E k \in 1..Len(callbacks[last.selected]) :
            callbacks[last.selected][k].hook = last.bad)
    => /\ last.result = "raise"
       /\ last.exc.type = "Exception"
       /\ last.exc.arg = last.bad
       /\ last.fired[Len(last.fired)].hook = last.bad
       /\ instances[last.inst].state = last.pre
       /\ last.pre = Obj(last.selected).state1

C12_Witness ==
    /\ last.op = "cycle"
    /\ last.selected = "A.t1"
    /\ last.bad = "on_t1"
    /\ Len(last.fired) = 3
    /\ last.result = "raise"
    /\ instances[last.inst].state = "A.a1"

(***************************************************************************)
(* C18. cycle() on an instance whose base constructor never ran raises an  *)
(* error to the caller: it returns nothing, evaluates no condition, fires  *)
(* no callback and performs no transition.                                 *)
(***************************************************************************)
C18_UnconstructedCycleRaises ==
    (last.op = "cycle" /\ ~instances[last.inst].constructed) =>
        /\ last.result = "raise"
        /\ last.exc.type # None
        /\ last.evaluated = <<>>
        /\ last.fired = <<>>
        /\ last.trans = None
        /\ last.selected = None
        /\ instances[last.inst].state = None

C18_Witness ==
    /\ last.op = "cycle"
    /\ last.klass = "NoSuper"
    /\ last.env = {"is_state_a1_to_a2"}
    /\ last.exc.type = "AttributeError"
    /\ instances[last.inst].state = None

(***************************************************************************)
(* C19. A build of a type that declares two Transitions with the same      *)
(* source, target and name fails with the duplicate-transition error,      *)
(* also when the two are separately created objects.                       *)
(***************************************************************************)
SameTriple(cls, o1, o2) ==
    /\ o1.state1 = o2.state1
    /\ o1.state2 = o2.state2
    /\ BuiltName(cls, o1) = BuiltName(cls, o2)

C19_DuplicateTripleRejected ==
    (/\ last.op = "construct"
     /\ last.built
     /\ \E j, k \in 1..Len(Members(last.klass)) :
            /\ j < k
            /\ Members(last.klass)[j].obj.kind = "Transition"
            /\ Members(last.klass)[k].obj.kind = "Transition"
            /\ SameTriple(last.klass, Members(last.klass)[j].obj,
                          Members(last.klass)[k].obj))
    => /\ last.result = "raise"
       /\ last.exc.type = "TransitionException"
       /\ last.exc.msg = "Duplicate transition"

(***************************************************************************)
(* C14. The gumball scenario, call by call: from ready with the coin flag  *)
(* set cycle() moves to coin_dropped; from coin_dropped with the crank at  *)
(* 90 it moves to crank_turned; from crank_turned it stays while the crank *)
(* is not at 360 and moves to gumball_dispensed at 360; from               *)
(* gumball_dispensed with the crank at 0 it moves to crank_returned; at    *)
(* crank_returned it returns False and stays.                              *)
(***************************************************************************)
C14_GumballScenario ==
    (last.op = "cycle" /\ last.klass = "Gumball") =>
        LET now   == instances[last.inst].state
            coin  == last.model.coin_slot
            crank == last.model.crank_position
        IN  /\ last.exc.type = None
            /\ (last.pre = ready.id /\ coin = COIN_SLOT_OCCUPIED)
                   => now = coin_dropped.id
            /\ (last.pre = coin_dropped.id /\ crank = 90)
                   => now = crank_turned.id
            /\ (last.pre = crank_turned.id /\ crank # 360)
                   => now = crank_turned.id
            /\ (last.pre = crank_turned.id /\ crank = 360)
                   => now = gumball_dispensed.id
            /\ (last.pre = gumball_dispensed.id /\ crank = 0)
                   => now = crank_returned.id
            /\ last.pre = crank_returned.id
                   => (last.result = "False" /\ now = crank_returned.id)

C14_Witness ==
    /\ last.op = "cycle"
    /\ last.klass = "Gumball"
    /\ last.pre = crank_returned.id
    /\ last.result = "False"
    /\ instances[last.inst].state = crank_returned.id
    /\ hardware.coin_slot = COIN_SLOT_OCCUPIED
    /\ hardware.crank_position = 0

(***************************************************************************)
(* C15. A driven instance of a well-formed type is at a final State once   *)
(* as many cycle() calls as the type declares transitions have been made   *)
(* on it, and every call made on it at a final State returns False.        *)
(***************************************************************************)
C15_DrivenReachesFinal ==
    \A i \in 1..Len(instances) :
        WellFormed(instances[i].klass) =>
            /\ calls[i] >= Cardinality(DeclaredTransitions(instances[i].klass))
                   => Obj(instances[i].state).final
            /\ (last.op = "cycle" /\ last.inst = i /\ Obj(last.pre).final)
                   => (last.result = "False" /\ instances[i].state = last.pre)

(***************************************************************************)
(* C11. While all threads construct the same well-formed type, the build   *)
(* of that type is run by at most one thread, by exactly one once a        *)
(* constructor has returned, and every returned instance is at the type's  *)
(* initial State, until its cycle() has run, with the complete outgoing    *)
(* index in place.                                                         *)
(***************************************************************************)
Builders(cls) ==
    {t \in 1..Len(threads) : threads[t].klass = cls /\ threads[t].built}

IndexComplete(cls) ==
    \A o \in DeclaredStates(cls) :
        candidates(o.id) = Outgoing(cls, o.id)

C11_BuiltOnceUnderThreads ==
    \A cls \in ThreadTypes :
        (WellFormed(cls) /\ \A t \in 1..Len(threads) : threads[t].klass = cls)
        => /\ Cardinality(Builders(cls)) <= 1
           /\ \A t \in 1..Len(threads) :
                  threads[t].pc = "done" =>
                      /\ Cardinality(Builders(cls)) = 1
                      /\ threads[t].cpc # "returned" =>
                             instances[threads[t].inst].state =
                                 DeclaredInitial(cls)
                      /\ IndexComplete(cls)

C11_Witness ==
    /\ Len(threads) = MaxThreads
    /\ \A t \in 1..Len(threads) :
           threads[t].klass = "A" /\ threads[t].pc = "done"
    /\ Cardinality(Builders("A")) = 1
    /\ Len(instances) = MaxThreads

IndexOf(s) == IF s \in DOMAIN transitions THEN transitions[s] ELSE <<>>

\* The position of the first candidate whose condition holds in env, or
\* the number of candidates when none holds.
FirstTruthy(cands, env) ==
    IF \E k \in 1..Len(cands) : Obj(cands[k]).cond \in env
    THEN CHOOSE k \in 1..Len(cands) :
             /\ Obj(cands[k]).cond \in env
             /\ \A j \in 1..(k - 1) : Obj(cands[j]).cond \notin env
    ELSE Len(cands)

C22_EvaluatesPrefix ==
    (last.op = "cycle" /\ last.exc.type = None /\ ~Obj(last.pre).final) =>
        /\ last.evaluated =
               SubSeq(IndexOf(last.pre), 1,
                      FirstTruthy(IndexOf(last.pre), last.env))
        /\ IndexOf(last.pre) = Outgoing(last.klass, last.pre)

C22_Witness ==
    /\ last.op = "cycle"
    /\ last.pre = "A.a1"
    /\ last.env = {"c1", "c2", "c3"}
    /\ last.evaluated = <<"A.t1">>
    /\ last.trans = "A.t1"

(***************************************************************************)
(* C23. cycle() on an instance whose current State is not final and has no *)
(* outgoing transition in the index raises an error to the caller and      *)
(* leaves the current State unchanged.                                     *)
(***************************************************************************)
C23_DeadEndRaises ==
    (last.op = "cycle" /\ ~Obj(last.pre).final /\ IndexOf(last.pre) = <<>>)
    => /\ last.result = "raise"
       /\ last.exc.type = "TransitionException"
       /\ last.evaluated = <<>>
       /\ last.fired = <<>>
       /\ instances[last.inst].state = last.pre

\* A State that is a dead end by declaration, reached by a transition.
C23_Witness ==
    /\ last.op = "cycle"
    /\ last.klass = "NoFinalT"
    /\ Outgoing("NoFinalT", last.pre) = <<>>
    /\ ~instances[last.inst].first_run
    /\ last.pre = "NoFinalT.s2"
    /\ last.exc.msg = "No transitions found from state"
    /\ instances[last.inst].state = "NoFinalT.s2"

(***************************************************************************)
(* C24. A thread that waits to enter the constructor of its type is never  *)
(* kept out by a thread that is building the model of another type.        *)
(***************************************************************************)
C24_GatePerType ==
    \A t \in 1..Len(threads) :
        (threads[t].pc = "acquire" /\ mutex # 0) =>
            threads[mutex].klass = threads[t].klass

(***************************************************************************)
(* C25. The lock is held only by a thread that is inside the guarded       *)
(* statements of a constructor or of a first cycle(), never by one whose   *)
(* call has returned or raised; and every thread that was started gets     *)
(* through its constructor and its first cycle(), whatever the other       *)
(* threads' builds and checks raised.                                      *)
(***************************************************************************)
Finished(t) ==
    \/ threads[t].pc = "raised"
    \/ threads[t].cpc \in {"returned", "raised"}

InGuarded(t) ==
    \/ threads[t].pc \in {"check", "scan", "release"}
    \/ threads[t].cpc \in {"check", "release"}

C25_GateAlwaysReleased ==
    /\ [](mutex # 0 => InGuarded(mutex))
    /\ \A t \in 1..MaxThreads :
           (Len(threads) >= t) ~> (Len(threads) >= t /\ Finished(t))

\* A build has failed, and a thread of another type has since constructed
\* and first-cycled its instance.
C25_Witness ==
    /\ \E t \in 1..Len(threads) :
           threads[t].pc = "raised" /\ threads[t].exc.type # None
    /\ \E u \in 1..Len(threads) :
           /\ threads[u].klass = "B"
           /\ threads[u].built
           /\ threads[u].cpc = "returned"
    /\ mutex = 0

(***************************************************************************)
(* C26. A constructor call, with or without a build, invokes no condition  *)
(* function and no callback of the machine type: only cycle() does.        *)
(***************************************************************************)
C26_BuildInvokesNothing ==
    last.op # "cycle" => (last.evaluated = <<>> /\ last.fired = <<>>)

\* A build that collected the five hooks of A's first transition.
C26_Witness ==
    /\ last.op = "construct"
    /\ last.klass = "A"
    /\ last.built
    /\ last.fired = <<>>
    /\ "A.t1" \in DOMAIN callbacks
    /\ Len(callbacks["A.t1"]) = Len(EventOrder(A_t1))

(***************************************************************************)
(* C27. A callbacks_init call on a well-formed type, made right after a    *)
(* build of that type, succeeds and leaves the initial State, the set of   *)
(* states, the ordered outgoing index, the transition names and the        *)
(* callback pipelines as that build left them, with no entry twice.        *)
(***************************************************************************)
NoDuplicates(seq) ==
    \A j, k \in 1..Len(seq) : seq[j] = seq[k] => j = k

C27_RebuildIdempotent ==
    [][(/\ last.op \in {"construct", "rebuild"}
        /\ last.built
        /\ last.exc.type = None
        /\ WellFormed(last.klass)
        /\ last'.op = "rebuild"
        /\ last'.klass = last.klass)
       => /\ last'.exc.type = None
          /\ initial_state' = initial_state
          /\ states' = states
          /\ transitions' = transitions
          /\ tname' = tname
          /\ callbacks' = callbacks
          /\ \A s \in DOMAIN transitions' : NoDuplicates(transitions'[s])
          /\ \A t \in DOMAIN callbacks' : NoDuplicates(callbacks'[t])]_vars

\* A rebuild of A after A's first and only build, with an instance of A
\* already stepped.
C27_Witness ==
    /\ last.op = "rebuild"
    /\ last.klass = "A"
    /\ last.exc.type = None
    /\ constructs = 1
    /\ Len(instances) = 1
    /\ instances[1].state = "A.a2"
    /\ initial_state["A"] = "A.a1"
    /\ IndexOf("A.a1") = <<"A.t1", "A.t2">>

(***************************************************************************)
(* C28. A cycle() on one instance leaves the current State of every other  *)
(* instance as it was, of the same type or of another, whatever the order  *)
(* of the calls on the instances.                                          *)
(***************************************************************************)
C28_InstancesIndependent ==
    [][last'.op = "cycle" =>
          /\ Len(instances') = Len(instances)
          /\ \A j \in 1..Len(instances) :
                 j # last'.inst => instances'[j].state = instances[j].state]_vars

\* Two instances of A stepped in turn: the second was cycled and stayed,
\* then the first went on to a3.
C28_Witness ==
    /\ Len(instances) = 2
    /\ instances[1].klass = "A"
    /\ instances[2].klass = "A"
    /\ ~instances[2].first_run
    /\ instances[2].state = "A.a1"
    /\ instances[1].state = "A.a3"
    /\ last.op = "cycle"
    /\ last.inst = 1
    /\ last.trans = "A.t3"

(***************************************************************************)
(* C29. The first construction of a well-formed machine type builds that   *)
(* type and gives an instance at the initial State the type declares, also *)
(* when the type is a subclass of a type that is already built.            *)
(***************************************************************************)
C29_OwnModelOnFirstInstance ==
    (last.op = "construct" /\ last.first /\ WellFormed(last.klass)) =>
        /\ last.built
        /\ last.exc.type = None
        /\ instances[last.inst].state = DeclaredInitial(last.klass)

====
